---- MODULE Spec2Model ----
(***************************************************************************)
(* State-machine model of src/ngram.c: the tokenizer, the Tape, the        *)
(* DataLoader and the NgramModel (ngram_init, ravel_index, ngram_train,    *)
(* ngram_inference).                                                       *)
(*                                                                         *)
(* size_t and uint32_t values are kept at their real width.  They are      *)
(* represented as little-endian sequences of bytes (8 bytes for size_t, 4  *)
(* for uint32_t), because the model checker's own integers are narrower    *)
(* than 64 bits.  All arithmetic on them is modulo 2^(8 * width).          *)
(*                                                                         *)
(* A few statements of the file are not valid C as written; they are read  *)
(* as the surrounding code and comments say: EOT_TOKEN is 0 (line 82),     *)
(* the second parameter of tape_init is the `length` its body uses (line   *)
(* 131), dataloader_init passes &dataloader->tape (line 306), and          *)
(* dataloader_next assigns tokenizer_encode(c) to token (line 326).  The   *)
(* arithmetic and the conditions are taken exactly as written.             *)
(*                                                                         *)
(* assert() is compiled in or out by NDEBUG; the build is chosen in Init.  *)
(* An access outside an allocation is undefined behaviour: the model       *)
(* offers both a crash and a silent continuation.                          *)
(***************************************************************************)
EXTENDS Integers, Sequences, FiniteSets, TLC

VARIABLES
    ndebug,      \* TRUE iff the build defines NDEBUG (assert compiled out)
    status,      \* "running" | "aborted" (assert) | "exited" (exit(1)) | "crashed"
    ub,          \* TRUE once memory outside an allocation was read or written
    tape,        \* a stand-alone Tape: [state, n, length, buffer]
    fed,         \* tokens passed to tape_update on that Tape, in order
    rets,        \* the values those tape_update calls returned
    dataloader,  \* the DataLoader: [state, file, pos, seq_len, tape]
    results,     \* per dataloader_next call: [ret, tape]
    model,       \* the NgramModel: [state, vocab_size, seq_len, smoothing,
                 \*                  num_counts, counts, ravel_buffer]
    initcall,    \* the arguments ngram_init was called with, once called
    trainlog,    \* per run of ngram_train calls: [tape, offset, k]
    inferlog     \* per ngram_inference call: [tape, offset, row, branch]

vars == <<ndebug, status, ub, tape, fed, rets, dataloader, results,
          model, initcall, trainlog, inferlog>>

tapeVars   == <<tape, fed, rets>>
loaderVars == <<dataloader, results>>
modelVars  == <<model, initcall, trainlog, inferlog>>

-----------------------------------------------------------------------------
(* Bounds of the model *)

MaxLen      == 3    \* largest Tape length / DataLoader seq_len tried
MaxToken    == 2    \* stand-alone Tape is fed tokens 0..MaxToken
MaxFeed     == 5    \* tape_update calls on the stand-alone Tape
MaxStream   == 3    \* characters in the DataLoader's file
MaxCalls    == 5    \* dataloader_next calls
MaxVocab    == 3    \* largest ordinary vocab_size tried
MaxSeqLen   == 3    \* largest ordinary seq_len tried
MaxOps      == 2    \* ngram_train / ngram_inference steps on one model
HeapBytes   == 128  \* malloc succeeds for requests up to this many bytes

-----------------------------------------------------------------------------
(* Fixed-width unsigned integers: little-endian byte sequences *)

Byte == 256

SizeBytes  == 8     \* sizeof(size_t)
CountBytes == 4     \* sizeof(uint32_t)

RECURSIVE ToBytes(_, _)
ToBytes(n, w) ==
    IF w = 0 THEN <<>> ELSE <<n % Byte>> \o ToBytes(n \div Byte, w - 1)

RECURSIVE AddC(_, _, _)
AddC(a, b, c) ==
    IF a = <<>> THEN <<>>
    ELSE LET s == Head(a) + Head(b) + c
         IN  <<s % Byte>> \o AddC(Tail(a), Tail(b), s \div Byte)

Add(a, b) == AddC(a, b, 0)

Neg(a) == AddC([i \in DOMAIN a |-> 255 - a[i]], [i \in DOMAIN a |-> 0], 1)

RECURSIVE MulD(_, _, _)
MulD(a, d, c) ==
    IF a = <<>> THEN <<>>
    ELSE LET p == Head(a) * d + c
         IN  <<p % Byte>> \o MulD(Tail(a), d, p \div Byte)

RECURSIVE Mul(_, _)
Mul(a, b) ==
    IF a = <<>> THEN <<>>
    ELSE Add(MulD(a, Head(b), 0),
             <<0>> \o Mul(SubSeq(a, 1, Len(a) - 1), Tail(b)))

RECURSIVE Less(_, _)
Less(a, b) ==
    IF a = <<>> THEN FALSE
    ELSE LET n == Len(a)
         IN  IF a[n] # b[n] THEN a[n] < b[n]
             ELSE Less(SubSeq(a, 1, n - 1), SubSeq(b, 1, n - 1))

LessEq(a, b) == a = b \/ Less(a, b)

\* the value as a model integer; only for values below 2^31
IsSmall(a) == \A i \in DOMAIN a : (i > 4 => a[i] = 0) /\ (i = 4 => a[i] < 128)
ToNat(a)   == a[1] + Byte * (a[2] + Byte * (a[3] + Byte * a[4]))

\* C conversion of an int to size_t (negative values wrap)
SizeT(i) == IF i >= 0 THEN ToBytes(i, SizeBytes) ELSE Neg(ToBytes(-i, SizeBytes))

U32(i)  == ToBytes(i, CountBytes)
U32Max  == [i \in 1..CountBytes |-> 255]

-----------------------------------------------------------------------------
(* STEP 2: utility functions *)

RECURSIVE powi_loop(_, _, _, _)
powi_loop(result, base, i, exp) ==
    IF i < exp THEN powi_loop(Mul(result, SizeT(base)), base, i + 1, exp)
    ELSE result

powi(base, exp) == powi_loop(SizeT(1), base, 0, exp)

\* malloc(size): "ok", or "null" when the request cannot be served.
\* malloc(0) may return either a null pointer or a unique pointer.
malloc(size) ==
    IF size = SizeT(0) THEN {"ok", "null"}
    ELSE IF LessEq(size, SizeT(HeapBytes)) THEN {"ok"} ELSE {"null"}

-----------------------------------------------------------------------------
(* STEP 3: tokenizer *)

EOT_TOKEN == 0
NL        == 10     \* '\n'
Ch_a      == 97     \* 'a'
Ch_z      == 122    \* 'z'

ValidChar(c) == c = NL \/ (Ch_a <= c /\ c <= Ch_z)

tokenizer_encode(c) == IF c = NL THEN EOT_TOKEN ELSE c - Ch_a + 1

-----------------------------------------------------------------------------
(* STEP 4: tape *)

NoTape == [state |-> "none", n |-> 0, length |-> 0, buffer |-> <<>>]

\* contents of freshly malloc'ed ints are indeterminate
Garbage == {-1, 0}

\* the Tape values tape_init(length) can leave (length >= 0)
tape_init(length) ==
    { [state |-> "ready", n |-> 0, length |-> length, buffer |-> b] :
        b \in [1..length -> Garbage] }

\* tape_update with the shift loop left out
tape_update_noshift(t, token) ==
    IF t.length = 0 THEN [tape |-> t, ret |-> 1]
    ELSE LET stored == [i \in 1..t.length |->
                            IF i < t.length THEN t.buffer[i] ELSE token]
             n2     == IF t.n < t.length THEN t.n + 1 ELSE t.n
         IN  [tape |-> [t EXCEPT !.buffer = stored, !.n = n2],
              ret  |-> IF n2 = t.length THEN 1 ELSE 0]

\* tape_update with n incremented on every call
tape_update_uncapped(t, token) ==
    IF t.length = 0 THEN [tape |-> t, ret |-> 1]
    ELSE LET shifted == [i \in 1..t.length |->
                            IF i < t.length THEN t.buffer[i + 1] ELSE token]
             n2      == t.n + 1
         IN  [tape |-> [t EXCEPT !.buffer = shifted, !.n = n2],
              ret  |-> IF n2 = t.length THEN 1 ELSE 0]

\* tape_update on a Tape with length >= 0: the new Tape and the return value
tape_update(t, token) ==
    IF t.length = 0 THEN [tape |-> t, ret |-> 1]
    ELSE LET shifted == [i \in 1..t.length |->
                            IF i < t.length THEN t.buffer[i + 1] ELSE token]
             n2      == IF t.n < t.length THEN t.n + 1 ELSE t.n
         IN  [tape |-> [t EXCEPT !.buffer = shifted, !.n = n2],
              ret  |-> IF n2 = t.length THEN 1 ELSE 0]

-----------------------------------------------------------------------------
(* STEP 5: n-gram modelling *)

NoModel == [state |-> "none", vocab_size |-> 0, seq_len |-> 0, smoothing |-> 0,
            num_counts |-> SizeT(0), counts |-> <<>>, ravel_buffer |-> <<>>]

\* ngram_init: the set of outcomes [model, status, ub] of one call.
\* nd is the NDEBUG flag of the build.  The fresh ravel_buffer is
\* indeterminate; it is written in full before it is ever read, so one
\* placeholder value (-1) stands for its contents.
ngram_init(vocab_size, seq_len, smoothing, nd) ==
    IF ~nd /\ ~(vocab_size > 0)
    THEN {[model |-> NoModel, status |-> "aborted", ub |-> FALSE]}
    ELSE IF ~nd /\ ~(seq_len >= 1 /\ seq_len <= 0)
    THEN {[model |-> NoModel, status |-> "aborted", ub |-> FALSE]}
    ELSE
    LET num_counts == powi(vocab_size, seq_len)
        bytes      == Mul(num_counts, SizeT(CountBytes))
        rbytes     == Mul(SizeT(seq_len), SizeT(4))
        exited     == [model |-> NoModel, status |-> "exited", ub |-> FALSE]
        crashed    == [model |-> NoModel, status |-> "crashed", ub |-> TRUE]
        \* the zeroing loop stays inside the allocation iff bytes did not wrap
        inside     == /\ IsSmall(bytes)
                      /\ ToNat(bytes) % CountBytes = 0
                      /\ num_counts = SizeT(ToNat(bytes) \div CountBytes)
        ready(rb)  == [model |-> [state        |-> "ready",
                                  vocab_size   |-> vocab_size,
                                  seq_len      |-> seq_len,
                                  smoothing    |-> smoothing,
                                  num_counts   |-> num_counts,
                                  counts       |-> [i \in 0..(ToNat(num_counts) - 1)
                                                       |-> U32(0)],
                                  ravel_buffer |-> rb],
                       status |-> "running", ub |-> FALSE]
    IN  UNION { IF m = "null" THEN {exited}
                ELSE IF ~inside THEN {crashed}
                ELSE UNION { IF r = "null" THEN {exited}
                             ELSE { ready([i \in 1..seq_len |-> -1]) }
                             : r \in malloc(rbytes) }
                : m \in malloc(bytes) }

\* ravel_index: [index1d, ok]; ok is FALSE iff the assertion on some
\* index[i] is false.  index is 1-based here, 0-based in the code.
RECURSIVE ravel_loop(_, _, _, _, _, _)
ravel_loop(index, i, dim, index1d, multiplier, ok) ==
    IF i >= 0
    THEN LET ix == index[i + 1]
         IN  ravel_loop(index, i - 1, dim,
                        Add(index1d, Mul(multiplier, SizeT(ix))),
                        Add(multiplier, SizeT(dim)),
                        ok /\ (ix >= 0 /\ ix < dim))
    ELSE [index1d |-> index1d, ok |-> ok]

ravel_index(index, n, dim) ==
    ravel_loop(index, n - 1, dim, SizeT(0), SizeT(1), TRUE)


NoLoader == [state |-> "none", file |-> <<>>, pos |-> 1, seq_len |-> 0,
             tape |-> NoTape]

\* dataloader_next that takes the last character for the end of the file
RECURSIVE dataloader_next_short(_, _)
dataloader_next_short(dl, nd) ==
    IF dl.pos >= Len(dl.file)
    THEN [dl |-> dl, ret |-> 0, status |-> "running"]
    ELSE LET c    == dl.file[dl.pos]
             read == [dl EXCEPT !.pos = dl.pos + 1]
         IN  IF ~nd /\ ~ValidChar(c)
             THEN [dl |-> read, ret |-> 0, status |-> "aborted"]
             ELSE LET r    == tape_update(dl.tape, tokenizer_encode(c))
                      next == [read EXCEPT !.tape = r.tape]
                  IN  IF r.ret = 1
                      THEN [dl |-> next, ret |-> 1, status |-> "running"]
                      ELSE dataloader_next_short(next, nd)

\* the loop of dataloader_next: fgetc, tokenizer_encode, tape_update.
\* pos is the stream cursor (1-based index of the next character).
RECURSIVE dataloader_next(_, _)
dataloader_next(dl, nd) ==
    IF dl.pos > Len(dl.file)
    THEN [dl |-> dl, ret |-> 0, status |-> "running"]          \* c == EOF
    ELSE LET c    == dl.file[dl.pos]
             read == [dl EXCEPT !.pos = dl.pos + 1]
         IN  IF ~nd /\ ~ValidChar(c)
             THEN [dl |-> read, ret |-> 0, status |-> "aborted"]
             ELSE LET r    == tape_update(dl.tape, tokenizer_encode(c))
                      next == [read EXCEPT !.tape = r.tape]
                  IN  IF r.ret = 1
                      THEN [dl |-> next, ret |-> 1, status |-> "running"]
                      ELSE dataloader_next(next, nd)

-----------------------------------------------------------------------------
(* Inputs *)

TapeLengths == -1..MaxLen
TokenSet    == 0..MaxToken
FileChars   == {NL, Ch_a, Ch_z, 65}          \* '\n', 'a', 'z' and 'A'
Files       == UNION { [1..n -> FileChars] : n \in 0..MaxStream }
LoaderLens  == 0..MaxLen

\* (vocab_size, seq_len) pairs tried: the ordinary ones, invalid ones, and
\* two whose table size does not fit in size_t
Configs     == ((-1..MaxVocab) \X (0..MaxSeqLen)) \cup {<<2^22, 3>>, <<2^21, 3>>}
Smoothings  == {0, 1}
\* tokens used in training windows and contexts of a model
TokenSample(dim) == {t \in 0..(MaxVocab - 1) : t < dim}
Windows(n, dim)  == [1..n -> TokenSample(dim)]
\* number of successive ngram_train calls made with one window
Repeats     == {U32(1), U32Max}

-----------------------------------------------------------------------------
(* Initial state: nothing constructed yet *)

NoOp == [op |-> "none"]

Init ==
    /\ ndebug \in BOOLEAN
    /\ status = "running"
    /\ ub = FALSE
    /\ tape = NoTape
    /\ fed = <<>>
    /\ rets = <<>>
    /\ dataloader = NoLoader
    /\ results = <<>>
    /\ model = NoModel
    /\ initcall = NoOp
    /\ trainlog = <<>>
    /\ inferlog = <<>>

-----------------------------------------------------------------------------
(* Tape operations *)

TapeInit(length) ==
    /\ status = "running"
    /\ tape.state = "none"
    /\ IF ~ndebug /\ ~(length >= 0)
       THEN /\ status' = "aborted"                     \* assert(length >= 0)
            /\ UNCHANGED tape
       ELSE /\ tape' \in (IF length > 0 THEN tape_init(length)
                          ELSE {[state |-> "ready", n |-> 0, length |-> length,
                                 buffer |-> <<>>]})
            /\ UNCHANGED status
    /\ UNCHANGED <<ndebug, ub, fed, rets, loaderVars, modelVars>>

TapeUpdate(token) ==
    /\ status = "running"
    /\ tape.state = "ready"
    /\ tape.length >= 0
    /\ Len(fed) < MaxFeed
    /\ LET r == tape_update(tape, token)
       IN  /\ tape' = r.tape
           /\ rets' = Append(rets, r.ret)
    /\ fed' = Append(fed, token)
    /\ UNCHANGED <<ndebug, status, ub, loaderVars, modelVars>>

\* tape_update on a Tape built with a negative length (NDEBUG build only):
\* the store to buffer[length - 1] goes through a null pointer.
TapeUpdateNull(token) ==
    /\ status = "running"
    /\ tape.state = "ready"
    /\ tape.length < 0
    /\ ub' = TRUE
    /\ status' = "crashed"
    /\ UNCHANGED <<ndebug, tape, fed, rets, loaderVars, modelVars>>

NextTape ==
    \/ \E length \in TapeLengths : TapeInit(length)
    \/ \E token \in TokenSet : TapeUpdate(token)
    \/ \E token \in TokenSet : TapeUpdateNull(token)

SpecTape == Init /\ [][NextTape]_vars

-----------------------------------------------------------------------------
(* DataLoader operations *)

DataloaderInit(file, exists, seq_len) ==
    /\ status = "running"
    /\ dataloader.state = "none"
    /\ IF ~exists
       THEN /\ status' = "exited"                      \* fopen_check
            /\ UNCHANGED dataloader
       ELSE /\ \E t \in (IF seq_len > 0 THEN tape_init(seq_len)
                         ELSE {[state |-> "ready", n |-> 0, length |-> seq_len,
                                buffer |-> <<>>]}) :
                 dataloader' = [state |-> "ready", file |-> file, pos |-> 1,
                                seq_len |-> seq_len, tape |-> t]
            /\ UNCHANGED status
    /\ UNCHANGED <<ndebug, ub, tapeVars, results, modelVars>>

DataloaderNext ==
    /\ status = "running"
    /\ dataloader.state = "ready"
    /\ Len(results) < MaxCalls
    /\ LET r == dataloader_next(dataloader, ndebug)
       IN  /\ dataloader' = r.dl
           /\ status' = r.status
           /\ results' = Append(results, [ret |-> r.ret, status |-> r.status,
                                          tape |-> r.dl.tape.buffer])
    /\ UNCHANGED <<ndebug, ub, tapeVars, modelVars>>

NextLoader ==
    \/ \E file \in Files, exists \in BOOLEAN, seq_len \in LoaderLens :
          DataloaderInit(file, exists, seq_len)
    \/ DataloaderNext

SpecLoader == Init /\ [][NextLoader]_vars

-----------------------------------------------------------------------------
(* NgramModel operations *)

NgramInit(vocab_size, seq_len, smoothing) ==
    /\ status = "running"
    /\ model.state = "none"
    /\ \E r \in ngram_init(vocab_size, seq_len, smoothing, ndebug) :
          /\ model' = r.model
          /\ status' = r.status
          /\ ub' = r.ub
    /\ initcall' = [op |-> "init", vocab_size |-> vocab_size,
                    seq_len |-> seq_len, smoothing |-> smoothing]
    /\ UNCHANGED <<ndebug, tapeVars, loaderVars, trainlog, inferlog>>

\* k successive calls ngram_train(model, tp) (k = 1: a single call)
NgramTrain(tp, k) ==
    /\ status = "running"
    /\ model.state = "ready"
    /\ Len(trainlog) + Len(inferlog) < MaxOps
    /\ LET r      == ravel_index(tp, model.seq_len, model.vocab_size)
           offset == r.index1d
           inb    == Less(offset, model.num_counts)
       IN  /\ IF ~ndebug /\ ~(r.ok /\ inb)
              THEN /\ status' = "aborted"
                   /\ UNCHANGED <<model, ub>>
              ELSE IF inb
              THEN /\ model' = [model EXCEPT
                                  !.counts[ToNat(offset)] = Add(@, k)]
                   /\ UNCHANGED <<status, ub>>
              ELSE /\ ub' = TRUE        \* counts[offset]++ outside the table
                   /\ status' \in {"running", "crashed"}
                   /\ UNCHANGED model
           /\ trainlog' = Append(trainlog,
                                 [tape |-> tp, offset |-> offset, k |-> k])
    /\ UNCHANGED <<ndebug, tapeVars, loaderVars, initcall, inferlog>>

NgramInference(tp) ==
    /\ status = "running"
    /\ model.state = "ready"
    /\ Len(trainlog) + Len(inferlog) < MaxOps
    /\ LET n      == model.seq_len
           v      == model.vocab_size
           rb     == IF n >= 1 THEN tp \o <<0>> ELSE model.ravel_buffer
           r      == ravel_index(rb, n, v)
           offset == r.index1d
           \* ravel_buffer[seq_len - 1] and counts_row[0 .. vocab_size - 1]
           inb    == /\ n >= 1
                     /\ v <= 0 \/ LessEq(Add(offset, SizeT(v)), model.num_counts)
           row    == IF inb /\ v > 0
                     THEN [i \in 1..v |-> model.counts[ToNat(offset) + i - 1]]
                     ELSE <<>>
           zero   == v * model.smoothing = 0 /\ \A i \in DOMAIN row : row[i] = U32(0)
       IN  /\ IF ~ndebug /\ ~r.ok
              THEN /\ status' = "aborted"
                   /\ inferlog' = Append(inferlog,
                         [tape |-> tp, offset |-> offset, row |-> <<>>,
                          branch |-> "none"])
                   /\ UNCHANGED ub
              ELSE IF inb
              THEN /\ inferlog' = Append(inferlog,
                         [tape |-> tp, offset |-> offset, row |-> row,
                          branch |-> IF zero THEN "uniform" ELSE "normalized"])
                   /\ UNCHANGED <<status, ub>>
              ELSE /\ ub' = TRUE        \* reads or writes outside an allocation
                   /\ status' \in {"running", "crashed"}
                   /\ \E b \in {"uniform", "normalized"} :
                         /\ (v * model.smoothing # 0 => b = "normalized")
                         /\ inferlog' = Append(inferlog,
                               [tape |-> tp, offset |-> offset, row |-> <<>>,
                                branch |-> b])
           /\ model' = [model EXCEPT !.ravel_buffer = rb]
    /\ UNCHANGED <<ndebug, tapeVars, loaderVars, initcall, trainlog>>

Next ==
    \/ \E c \in Configs, smoothing \in Smoothings : NgramInit(c[1], c[2], smoothing)
    \/ \E tp \in Windows(model.seq_len, model.vocab_size), k \in Repeats :
          NgramTrain(tp, k)
    \/ \E tp \in Windows(model.seq_len - 1, model.vocab_size) : NgramInference(tp)

Spec == Init /\ [][Next]_vars

-----------------------------------------------------------------------------
(* Properties of the Tape *)

LastTokens(s, n) == SubSeq(s, Len(s) - n + 1, Len(s))

\* C4: on a Tape of length L >= 1, once at least L tokens have gone through
\* tape_update the buffer is exactly the L most recent tokens, oldest at
\* index 0 and newest at index L-1.
C4_TapeHoldsMostRecent ==
    (tape.state = "ready" /\ tape.length >= 1 /\ Len(fed) >= tape.length)
        => tape.buffer = LastTokens(fed, tape.length)

C4_Witness ==
    /\ tape.state = "ready"
    /\ tape.length = 3
    /\ fed = <<2, 0, 1, 2, 0>>
    /\ tape.buffer = <<1, 2, 0>>

\* C5: on a Tape of length L >= 1 the first L-1 calls of tape_update return
\* 0 and every later call returns 1; on a Tape of length 0 every call
\* returns 1 and neither n nor the (absent) buffer changes.
C5_ReadyExactlyWhenFull ==
    (tape.state = "ready" /\ tape.length >= 0) =>
        /\ tape.length >= 1 =>
              \A i \in 1..Len(rets) :
                  rets[i] = (IF i >= tape.length THEN 1 ELSE 0)
        /\ tape.length = 0 =>
              /\ \A i \in 1..Len(rets) : rets[i] = 1
              /\ tape.n = 0
              /\ tape.buffer = <<>>

C5_Witness ==
    /\ tape.state = "ready"
    /\ tape.length = 3
    /\ Len(fed) = 4
    /\ SubSeq(fed, 1, 3) = <<1, 2, 0>>
    /\ rets = <<0, 0, 1, 1>>

-----------------------------------------------------------------------------
(* Properties of the DataLoader *)

ValidFile(f) == \A i \in 1..Len(f) : ValidChar(f[i])

\* the tokens of characters k .. k+n-1 of the file
Window(f, k, n) == [i \in 1..n |-> tokenizer_encode(f[k + i - 1])]

NumWindows(f, n) == IF Len(f) - n + 1 > 0 THEN Len(f) - n + 1 ELSE 0

\* C6: over a file of N valid characters and seq_len n >= 1, the first
\* max(0, N-n+1) calls of dataloader_next return 1, the k-th leaving the tape
\* equal to the encoding of characters k..k+n-1; every later call returns 0,
\* and no call ends the process.
C6_LoaderYieldsEveryWindow ==
    (dataloader.state = "ready" /\ dataloader.seq_len >= 1
        /\ ValidFile(dataloader.file)) =>
        \A k \in 1..Len(results) :
            /\ results[k].status = "running"
            /\ results[k].ret =
                  (IF k <= NumWindows(dataloader.file, dataloader.seq_len)
                   THEN 1 ELSE 0)
            /\ results[k].ret = 1 =>
                  results[k].tape =
                      Window(dataloader.file, k, dataloader.seq_len)

C6_Witness ==
    /\ dataloader.state = "ready"
    /\ dataloader.seq_len = 2
    /\ dataloader.file = <<Ch_z, NL, Ch_a>>
    /\ Len(results) = 4
    /\ results[2].ret = 1
    /\ results[2].tape = <<EOT_TOKEN, 1>>
    /\ results[3].ret = 0
    /\ results[4].ret = 0

-----------------------------------------------------------------------------
(* Properties of the NgramModel *)


\* sum over i of index[i] * dim^(n-1-i), by Horner's rule, as a size_t
RECURSIVE RowMajorFrom(_, _, _, _)
RowMajorFrom(index, i, dim, acc) ==
    IF i > Len(index) THEN acc
    ELSE RowMajorFrom(index, i + 1, dim,
                      Add(Mul(acc, SizeT(dim)), SizeT(index[i])))

RowMajor(index, dim) == RowMajorFrom(index, 1, dim, SizeT(0))

\* v^n for v > 0, n >= 0, or cap + 1 when it exceeds cap
RECURSIVE SatPow(_, _, _)
SatPow(v, n, cap) ==
    IF n = 0 THEN 1
    ELSE LET p == SatPow(v, n - 1, cap)
         IN  IF p > cap \/ p * v > cap THEN cap + 1 ELSE p * v

MaxCells == HeapBytes \div CountBytes

\* a constructed model with vocab_size > 0, seq_len >= 1 and a table of
\* vocab_size^seq_len cells
ValidModel ==
    /\ model.state = "ready"
    /\ model.vocab_size > 0
    /\ model.seq_len >= 1
    /\ model.num_counts = SizeT(SatPow(model.vocab_size, model.seq_len, MaxCells))

Context(w) == SubSeq(w, 1, Len(w) - 1)

\* C1: for seq_len >= 1, vocab_size > 0 and tokens in [0, vocab_size),
\* ravel_index returns the row-major offset, the sum over i of
\* index[i] * vocab_size^(seq_len-1-i).
C1_RavelIsRowMajor ==
    ValidModel =>
        /\ \A j \in 1..Len(trainlog) :
              trainlog[j].offset = RowMajor(trainlog[j].tape, model.vocab_size)
        /\ \A j \in 1..Len(inferlog) :
              inferlog[j].offset =
                  RowMajor(inferlog[j].tape \o <<0>>, model.vocab_size)

\* number of ngram_train calls made with window w, as a size_t
RECURSIVE TimesTrained(_, _)
TimesTrained(w, j) ==
    IF j = 0 THEN SizeT(0)
    ELSE IF trainlog[j].tape = w
         THEN Add(TimesTrained(w, j - 1), trainlog[j].k \o <<0, 0, 0, 0>>)
         ELSE TimesTrained(w, j - 1)

\* C2: on a freshly initialised model, after ngram_train was called exactly
\* k times with a valid window w and with no other window that touches the
\* same cell, the count of w's cell equals k.
C2_CountEqualsTimesTrained ==
    ValidModel =>
        \A j \in 1..Len(trainlog) :
            LET e == trainlog[j] IN
            (\A i \in 1..Len(trainlog) :
                 trainlog[i].offset = e.offset => trainlog[i].tape = e.tape)
            => /\ Less(e.offset, model.num_counts)
               /\ model.counts[ToNat(e.offset)] \o <<0, 0, 0, 0>>
                      = TimesTrained(e.tape, Len(trainlog))

\* C3: the cell ngram_inference reads as entry t of the row of context c is
\* the cell ngram_train increments for the window c followed by t, and no
\* window with another context has its cell inside that row.
C3_TrainAndInferenceAgree ==
    ValidModel =>
        \A i \in 1..Len(inferlog), j \in 1..Len(trainlog) :
            LET f     == inferlog[i]
                e     == trainlog[j]
                inrow == /\ LessEq(f.offset, e.offset)
                         /\ Less(e.offset, Add(f.offset, SizeT(model.vocab_size)))
            IN  /\ Context(e.tape) = f.tape =>
                      e.offset = Add(f.offset, SizeT(e.tape[model.seq_len]))
                /\ inrow => Context(e.tape) = f.tape

Fits(v, n) == SatPow(v, n, MaxCells) <= MaxCells /\ n * 4 <= HeapBytes

JustInitialised ==
    initcall.op = "init" /\ trainlog = <<>> /\ inferlog = <<>>

\* C7: ngram_init fails if vocab_size <= 0 or seq_len < 1; for vocab_size > 0
\* and seq_len >= 1 with a table that fits in memory it succeeds and leaves
\* num_counts = vocab_size^seq_len counts, all zero.
C7_InitContract ==
    JustInitialised =>
        LET v == initcall.vocab_size
            n == initcall.seq_len
        IN  /\ (v <= 0 \/ n < 1) =>
                  model.state = "none" /\ status \in {"aborted", "exited"}
            /\ (v > 0 /\ n >= 1 /\ Fits(v, n)) =>
                  /\ status = "running"
                  /\ model.state = "ready"
                  /\ model.num_counts = SizeT(SatPow(v, n, MaxCells))
                  /\ DOMAIN model.counts = 0..(SatPow(v, n, MaxCells) - 1)
                  /\ \A c \in DOMAIN model.counts : model.counts[c] = U32(0)

\* C8: no cell of the counts table ever holds less than it held before,
\* also when a cell holding the largest 32-bit value is incremented.
C8_CountsNeverDecrease ==
    [][ValidModel =>
           \A c \in DOMAIN model.counts :
               LessEq(model.counts[c], model'.counts[c])]_vars

\* v^n * sizeof(uint32_t), exactly, in 128 bits
RECURSIVE WidePow(_, _)
WidePow(v, n) ==
    IF n = 0 THEN ToBytes(1, 16) ELSE Mul(WidePow(v, n - 1), ToBytes(v, 16))

Overflows(v, n) ==
    LET bytes == Mul(WidePow(v, n), ToBytes(CountBytes, 16))
    IN  \E i \in (SizeBytes + 1)..16 : bytes[i] # 0

\* C9: when vocab_size^seq_len entries of 4 bytes do not fit in size_t,
\* ngram_init rejects the configuration with an error rather than computing
\* a wrapped num_counts and allocating a table of the wrapped size.
C9_OverflowRejected ==
    (initcall.op = "init" /\ initcall.vocab_size > 0 /\ initcall.seq_len >= 1
        /\ Overflows(initcall.vocab_size, initcall.seq_len)) =>
        /\ model.state = "none"
        /\ status \in {"aborted", "exited"}
        /\ ~ub

\* C10: with vocab_size > 0, seq_len >= 1 and tokens in [0, vocab_size),
\* the offset ngram_train computes is below num_counts and every cell
\* ngram_inference reads (offset .. offset + vocab_size - 1) is below
\* num_counts.
C10_AccessesInBounds ==
    ValidModel =>
        /\ \A j \in 1..Len(trainlog) :
              Less(trainlog[j].offset, model.num_counts)
        /\ \A i \in 1..Len(inferlog) :
              LessEq(Add(inferlog[i].offset, SizeT(model.vocab_size)),
                     model.num_counts)

====
